---- MODULE Spec2Model ----
(***************************************************************************)
(* Model of the FBRef match-log pipeline:                                  *)
(*   src/fbref_data_downloader.py  (FBRefDownloader, clean_matchlog,       *)
(*                                  merge_teams, the main script)          *)
(*   src/update_specific_teams.py  (the update script)                     *)
(*                                                                         *)
(* Six specifications share the module:                                    *)
(*   SpecClean  clean_matchlog applied to bounded raw datasets,            *)
(*   SpecColumns  clean_matchlog applied to datasets lacking columns,      *)
(*   SpecMerge  merge_teams applied to bounded lists of cleaned datasets,  *)
(*   SpecFetch  one safe_get call, request by request,                     *)
(*   Spec       sequential download_matchlogs calls against the cache,     *)
(*   SpecRun    runs of the main and the update script, one after another. *)
(***************************************************************************)
EXTENDS Integers, Sequences, FiniteSets, TLC

VARIABLES
  raw,        \* SpecClean: the raw dataset handed to clean_matchlog
  cleaned,    \* SpecClean: what clean_matchlog returned
  cleanDone,  \* SpecClean: the call of clean_matchlog has ended
  cleanRaised, \* SpecClean: the call ended by raising KeyError
  all_dfs,    \* SpecMerge: the list of cleaned datasets
  combined,   \* SpecMerge: what merge_teams returned
  allFile,    \* SpecMerge: data/all_teams_training_data.csv
  mergeDone,  \* SpecMerge: merge_teams has returned
  delay_range,  \* FBRefDownloader.delay_range
  pc,         \* safe_get: "idle", "request", "cooldown", "delay", "backoff", "done"
  depth,      \* safe_get: nested activations of safe_get (line 25 recurses)
  requests,   \* safe_get: GET requests issued by the call
  status,     \* safe_get: status code of the last response, 0 when there is none
  raised,     \* safe_get: exception caught at line 33: "none", "network", "recursion"
  seen429,    \* safe_get: the call has received a 429
  cooldowns,  \* safe_get: sleeps of line 24 performed
  delays,     \* safe_get: sleeps of line 31 performed
  last_delay, \* safe_get: duration of the last sleep of line 31
  backoffs,   \* safe_get: sleeps of line 35 performed
  slept,      \* safe_get: seconds slept by the call
  result,     \* safe_get: "pending", "response" or "None"
  cache,      \* the files data/<team>_matchlogs.csv, by path
  dl_pc,      \* download_matchlogs: "idle", "season", "fetching", "returned"
  team_name,  \* download_matchlogs: its arguments
  team_id,
  seasons,
  cache_hit,  \* download_matchlogs: the branch of line 41 was taken
  idx,        \* download_matchlogs: position of the loop of line 52 in seasons
  url,        \* download_matchlogs: the URL of line 53
  all_logs,   \* download_matchlogs: the season tables collected so far
  attempted,  \* download_matchlogs: the seasons safe_get was called for
  succeeded,  \* download_matchlogs: for each season done, whether it gave a table
  extracted,  \* download_matchlogs: the <<team_name, season>> a table was tagged with
  ret,        \* download_matchlogs: what the last call returned
  run_pc,     \* a script: "idle", "loop", "call", "merged", "empty", "aborted"
  script,     \* the script that runs or ran last: "none", "main", "update"
  t_idx,      \* a script: position of the loop over teams
  updFile,    \* data/qarabag_bilbao_2025_2026.csv
  runs        \* the number of script runs started

cleanVars == <<raw, cleaned, cleanDone, cleanRaised>>
mergeVars == <<all_dfs, combined, allFile, mergeDone>>
fetchVars ==
  <<pc, depth, requests, status, raised, seen429, cooldowns, delays,
    last_delay, backoffs, slept, result>>
dlVars ==
  <<cache, dl_pc, team_name, team_id, seasons, cache_hit, idx, url, all_logs,
    attempted, succeeded, extracted, ret>>
runVars == <<run_pc, script, t_idx, updFile, runs>>
vars == <<cleanVars, mergeVars, delay_range, fetchVars, dlVars, runVars>>

(***************************************************************************)
(* Bounds of the model.                                                    *)
(***************************************************************************)
MaxRows == 2
MaxMergeRows == 2
MaxDfs == 2
MaxRetries == 1

(***************************************************************************)
(* Cells of a DataFrame.  A cell is a number, a text (a sequence of        *)
(* characters), the missing marker NaN, a parsed date, or NaT (the missing *)
(* marker of a date column).  All cells are records of one shape.          *)
(***************************************************************************)
Num(n) == [t |-> "num", n |-> n, s |-> <<>>]
Str(s) == [t |-> "str", n |-> 0, s |-> s]
NaN == [t |-> "nan", n |-> 0, s |-> <<>>]
Date(n) == [t |-> "date", n |-> n, s |-> <<>>]
NaT == [t |-> "nat", n |-> 0, s |-> <<>>]

Digits == {"0", "1", "2", "3", "4", "5", "6", "7", "8", "9"}

DigitVal(c) ==
  CASE c = "0" -> 0 [] c = "1" -> 1 [] c = "2" -> 2 [] c = "3" -> 3
    [] c = "4" -> 4 [] c = "5" -> 5 [] c = "6" -> 6 [] c = "7" -> 7
    [] c = "8" -> 8 [] c = "9" -> 9

RECURSIVE DecimalValue(_)
DecimalValue(s) ==
  IF s = <<>> THEN 0
  ELSE 10 * DecimalValue(SubSeq(s, 1, Len(s) - 1)) + DigitVal(s[Len(s)])

AllDigits(s) == s # <<>> /\ \A i \in 1..Len(s) : s[i] \in Digits

\* pd.to_numeric(x, errors='coerce') on one cell: a number stays, a text of
\* decimal digits becomes its value, anything else becomes NaN.
ToNumeric(c) ==
  IF c.t = "num" THEN c
  ELSE IF c.t = "str" /\ AllDigits(c.s) THEN Num(DecimalValue(c.s))
  ELSE NaN

DaysIn(y, m) ==
  IF m \in {4, 6, 9, 11} THEN 30
  ELSE IF m = 2
       THEN (IF y % 4 = 0 /\ (y % 100 # 0 \/ y % 400 = 0) THEN 29 ELSE 28)
       ELSE 31

\* A text is an ISO date when it reads YYYY-MM-DD with a real month and day.
IsIsoDate(s) ==
  /\ Len(s) = 10
  /\ s[5] = "-" /\ s[8] = "-"
  /\ \A i \in {1, 2, 3, 4, 6, 7, 9, 10} : s[i] \in Digits
  /\ LET y == DecimalValue(SubSeq(s, 1, 4))
         m == DecimalValue(SubSeq(s, 6, 7))
         d == DecimalValue(SubSeq(s, 9, 10))
     IN  m \in 1..12 /\ d \in 1..DaysIn(y, m)

IsoValue(s) ==
  10000 * DecimalValue(SubSeq(s, 1, 4)) + 100 * DecimalValue(SubSeq(s, 6, 7))
    + DecimalValue(SubSeq(s, 9, 10))

\* pd.to_datetime(x, errors='coerce') on one cell: a text that is a date is
\* parsed, a number is read as an offset from the epoch (1970-01-01 for the
\* small numbers of the model), anything else becomes NaT.
ToDatetime(c) ==
  IF c.t = "date" THEN c
  ELSE IF c.t = "str" /\ IsIsoDate(c.s) THEN Date(IsoValue(c.s))
  ELSE IF c.t = "num" THEN Date(19700101)
  ELSE NaT

IsNull(c) == c.t \in {"nan", "nat"}

(***************************************************************************)
(* DataFrames: a set of column names and a sequence of rows, each row a    *)
(* function from the column names to cells.                                *)
(***************************************************************************)
DataFrame(cols, rows) == [cols |-> cols, rows |-> rows]

useful_cols ==
  {"Date", "Comp", "Venue", "Result", "GF", "GA", "xG", "xGA", "Poss",
   "Opponent", "Team", "Season"}

numeric_cols == <<"GF", "GA", "xG", "xGA", "Poss">>

Restrict(row, cols) == [c \in cols |-> row[c]]

\* row with column col set to v (the column is added when absent)
SetCol(row, col, v) ==
  [c \in (DOMAIN row) \cup {col} |-> IF c = col THEN v ELSE row[c]]

MapRows(f(_), rows) == [i \in 1..Len(rows) |-> f(rows[i])]

MinusSwapped(a, b) == IF a.t = "num" /\ b.t = "num" THEN Num(b.n - a.n) ELSE NaN

\* a - b on two numeric cells; NaN when either is missing
Minus(a, b) == IF a.t = "num" /\ b.t = "num" THEN Num(a.n - b.n) ELSE NaN

\* Python's a > b and a == b on numeric cells: False when either is NaN
Greater(a, b) == a.t = "num" /\ b.t = "num" /\ a.n > b.n
Equal(a, b) == a.t = "num" /\ b.t = "num" /\ a.n = b.n

Win == Str(<<"W", "i", "n">>)
Draw == Str(<<"D", "r", "a", "w">>)
Loss == Str(<<"L", "o", "s", "s">>)

\* the lambda of line 95
OutcomeOf(r) ==
  IF Greater(r["GF"], r["GA"]) THEN Win
  ELSE IF Equal(r["GF"], r["GA"]) THEN Draw
  ELSE Loss

\* the loop of lines 91-92: every numeric column coerced, cell by cell
RECURSIVE CoerceNumeric(_, _)
CoerceNumeric(row, i) ==
  IF i > Len(numeric_cols) THEN row
  ELSE CoerceNumeric(SetCol(row, numeric_cols[i], ToNumeric(row[numeric_cols[i]])),
                     i + 1)

DeriveRow(row) ==
  LET r1 == CoerceNumeric(row, 1)
      r2 == SetCol(r1, "GoalDiff", Minus(r1["GF"], r1["GA"]))
      r3 == SetCol(r2, "xGDiff", Minus(r2["xG"], r2["xGA"]))
      r4 == SetCol(r3, "Outcome", OutcomeOf(r3))
  IN  SetCol(r4, "Date", ToDatetime(r4["Date"]))

DateParsed(row) == ~IsNull(row["Date"])

\* dropna() without the subset: a row with any null cell is dropped
RECURSIVE DropNaAny(_)
DropNaAny(rows) ==
  IF rows = <<>> THEN <<>>
  ELSE (IF \A c \in DOMAIN Head(rows) : ~IsNull(Head(rows)[c])
        THEN <<Head(rows)>> ELSE <<>>)
         \o DropNaAny(Tail(rows))

\* dropna(subset=['Date']): the rows with a non-null Date, in order
RECURSIVE DropNaDate(_)
DropNaDate(rows) ==
  IF rows = <<>> THEN <<>>
  ELSE (IF DateParsed(Head(rows)) THEN <<Head(rows)>> ELSE <<>>)
         \o DropNaDate(Tail(rows))

\* clean_matchlog(df).  Reading a numeric column or the Date column that the
\* projection does not hold raises KeyError; raised tells it.
CleanMatchlog(df) ==
  LET cols == useful_cols \cap df.cols
      need == {numeric_cols[i] : i \in 1..Len(numeric_cols)} \cup {"Date"}
  IN  IF ~(need \subseteq cols)
      THEN [raised |-> TRUE, df |-> DataFrame({}, <<>>)]
      ELSE [raised |-> FALSE,
            df |-> DataFrame(cols \cup {"GoalDiff", "xGDiff", "Outcome"},
                     DropNaDate(MapRows(DeriveRow,
                       [i \in 1..Len(df.rows) |-> Restrict(df.rows[i], cols)])))]

RECURSIVE ConcatRows(_)
ConcatRows(dfs) ==
  IF dfs = <<>> THEN <<>> ELSE Head(dfs).rows \o ConcatRows(Tail(dfs))

RECURSIVE UnionCols(_)
UnionCols(dfs) ==
  IF dfs = <<>> THEN {} ELSE Head(dfs).cols \cup UnionCols(Tail(dfs))

\* pd.concat(dfs, ignore_index=True): the rows of every dataset in list order,
\* over the union of the columns, a column a dataset lacks filled with NaN.
Concat(dfs) ==
  LET cols == UnionCols(dfs)
      Fill(row) == [c \in cols |-> IF c \in DOMAIN row THEN row[c] ELSE NaN]
  IN  DataFrame(cols, MapRows(Fill, ConcatRows(dfs)))

\* the rows of a sequence without the later copies of a row (drop_duplicates)
RECURSIVE Dedup(_)
Dedup(rows) ==
  IF rows = <<>> THEN <<>>
  ELSE LET init == Dedup(SubSeq(rows, 1, Len(rows) - 1))
           last == rows[Len(rows)]
       IN  IF \E i \in 1..Len(init) : init[i] = last THEN init
           ELSE Append(init, last)

MergeTeamsDedup(dfs) == DataFrame(Concat(dfs).cols, Dedup(Concat(dfs).rows))

\* merge_teams(dfs): the combined dataset, also written to
\* data/all_teams_training_data.csv
MergeTeams(dfs) == Concat(dfs)

(***************************************************************************)
(* Raw input rows.  Team and season names are texts; the scripts' own      *)
(* names are used.                                                         *)
(***************************************************************************)
QarabagFK == <<"Q", "a", "r", "a", "b", "a", "g", "-", "F", "K">>
QarabagFKSpaced == <<"Q", "a", "r", "a", "b", "a", "g", " ", "F", "K">>
AthleticClubBilbao ==
  <<"A", "t", "h", "l", "e", "t", "i", "c", "-", "C", "l", "u", "b", "-",
    "B", "i", "l", "b", "a", "o">>
Season2324 == <<"2", "0", "2", "3", "-", "2", "0", "2", "4">>
Season2425 == <<"2", "0", "2", "4", "-", "2", "0", "2", "5">>
Season2526 == <<"2", "0", "2", "5", "-", "2", "0", "2", "6">>

GoodDate == Str(<<"2", "0", "2", "4", "-", "0", "5", "-", "1", "1">>)
BadDay == Str(<<"2", "0", "2", "4", "-", "0", "2", "-", "3", "0">>)
Junk == Str(<<"x">>)

\* the columns of a schedule table of the remote site (a subset: Notes stands
\* for the columns clean_matchlog projects away)
raw_cols == useful_cols \cup {"Notes"}

RawRow(date, gf, ga, xg, xga, poss, opp, team, season) ==
  [c \in raw_cols |->
     CASE c = "Date" -> date
       [] c = "GF" -> gf
       [] c = "GA" -> ga
       [] c = "xG" -> xg
       [] c = "xGA" -> xga
       [] c = "Poss" -> poss
       [] c = "Opponent" -> opp
       [] c = "Team" -> Str(team)
       [] c = "Season" -> Str(season)
       [] c = "Comp" -> Str(<<"C", "L">>)
       [] c = "Venue" -> Str(<<"H", "o", "m", "e">>)
       [] c = "Result" -> Str(<<"W">>)
       [] OTHER -> NaN]

DigitChar(i) ==
  CASE i = 0 -> "0" [] i = 1 -> "1" [] i = 2 -> "2" [] i = 3 -> "3"
    [] i = 4 -> "4" [] i = 5 -> "5" [] i = 6 -> "6" [] i = 7 -> "7"
    [] i = 8 -> "8" [] i = 9 -> "9"

\* the opponent of the i-th row of a table: a text that names the row
OpponentOf(i) == Str(<<"o", "p", "p", DigitChar(i)>>)

DateInputs == {GoodDate, BadDay, NaN}
\* GF and GA of a row: a win, a draw, a loss, and scores with a cell that
\* does not coerce or is missing
ScoreInputs ==
  {<<Num(2), Num(1)>>, <<Str(<<"1">>), Num(1)>>, <<Str(<<"1">>), Str(<<"2">>)>>,
   <<Junk, Str(<<"2">>)>>, <<Num(2), NaN>>, <<NaN, NaN>>,
   <<Str(<<"2">>), Str(<<"2">>)>>}
StatInputs == {<<Num(1), Str(<<"3">>), Num(50)>>, <<NaN, Junk, NaN>>}

(***************************************************************************)
(* SpecClean: a raw dataset is built row by row, then clean_matchlog runs. *)
(***************************************************************************)
CleanInit ==
  /\ raw = DataFrame(raw_cols, <<>>)
  /\ cleaned = DataFrame({}, <<>>)
  /\ cleanDone = FALSE
  /\ cleanRaised = FALSE

MergeInit ==
  /\ all_dfs = <<>>
  /\ combined = DataFrame({}, <<>>)
  /\ allFile = DataFrame({}, <<>>)
  /\ mergeDone = FALSE

AddRow ==
  /\ ~cleanDone
  /\ Len(raw.rows) < MaxRows
  /\ \E d \in DateInputs, sc \in ScoreInputs, st \in StatInputs :
       raw' = DataFrame(raw.cols,
                Append(raw.rows,
                  RawRow(d, sc[1], sc[2], st[1], st[2], st[3],
                         OpponentOf(Len(raw.rows) + 1), QarabagFK, Season2324)))
  /\ UNCHANGED <<cleaned, cleanDone, cleanRaised, mergeVars, delay_range,
               fetchVars, dlVars, runVars>>

\* The call of clean_matchlog(raw): it returns the cleaned dataset, or it
\* raises and nothing is returned.
Clean ==
  /\ ~cleanDone
  /\ cleanRaised' = CleanMatchlog(raw).raised
  /\ cleaned' = IF CleanMatchlog(raw).raised THEN cleaned
                ELSE CleanMatchlog(raw).df
  /\ cleanDone' = TRUE
  /\ UNCHANGED <<raw, mergeVars, delay_range, fetchVars, dlVars, runVars>>

CleanNext == AddRow \/ Clean

(***************************************************************************)
(* SpecColumns: the raw dataset lacks some of the columns of the page      *)
(* table (FBref publishes no xG for some competitions), then               *)
(* clean_matchlog runs on it.                                              *)
(***************************************************************************)
MaxDropped == 2
MaxShapeRows == 1

\* the page table came without column c
DropColumn ==
  /\ ~cleanDone
  /\ raw.rows = <<>>
  /\ Cardinality(raw_cols \ raw.cols) < MaxDropped
  /\ \E c \in raw.cols : raw' = DataFrame(raw.cols \ {c}, <<>>)
  /\ UNCHANGED <<cleaned, cleanDone, cleanRaised, mergeVars, delay_range,
               fetchVars, dlVars, runVars>>

\* a played match, in the columns the table has
AddShapeRow ==
  /\ ~cleanDone
  /\ Len(raw.rows) < MaxShapeRows
  /\ raw' = DataFrame(raw.cols,
              Append(raw.rows,
                Restrict(RawRow(GoodDate, Num(2), Num(1), Num(1), Num(1),
                                Num(50), OpponentOf(Len(raw.rows) + 1),
                                QarabagFK, Season2324),
                         raw.cols)))
  /\ UNCHANGED <<cleaned, cleanDone, cleanRaised, mergeVars, delay_range,
               fetchVars, dlVars, runVars>>

ColumnsNext == DropColumn \/ AddShapeRow \/ Clean


(***************************************************************************)
(* SpecMerge: cleaned datasets are collected as the scripts do (lines      *)
(* 198-201), then merge_teams runs on a non-empty list (line 203).         *)
(***************************************************************************)
MergeRowInputs ==
  {RawRow(GoodDate, Num(2), Num(1), Num(1), Num(1), Num(50), OpponentOf(1),
          QarabagFK, Season2324),
   RawRow(GoodDate, Num(0), Num(0), Num(1), Num(1), Num(50), OpponentOf(2),
          AthleticClubBilbao, Season2425),
   RawRow(BadDay, Num(1), Num(3), Num(1), Num(1), Num(50), OpponentOf(3),
          AthleticClubBilbao, Season2324)}

MergeTables ==
  UNION {[1..n -> MergeRowInputs] : n \in 0..MaxMergeRows}

Collect ==
  /\ ~mergeDone
  /\ Len(all_dfs) < MaxDfs
  /\ \E rows \in MergeTables :
       all_dfs' = Append(all_dfs, CleanMatchlog(DataFrame(raw_cols, rows)).df)
  /\ UNCHANGED <<combined, allFile, mergeDone, cleanVars, delay_range,
               fetchVars, dlVars, runVars>>

Merge ==
  /\ ~mergeDone
  /\ all_dfs # <<>>
  /\ combined' = MergeTeams(all_dfs)
  /\ allFile' = MergeTeams(all_dfs)
  /\ mergeDone' = TRUE
  /\ UNCHANGED <<all_dfs, cleanVars, delay_range, fetchVars, dlVars, runVars>>

MergeNext == Collect \/ Merge


(***************************************************************************)
(* FBRefDownloader.safe_get, one step per request, sleep and return.       *)
(***************************************************************************)
\* time.sleep(60) of line 24 and time.sleep(10) of line 35
RateLimitWait == 60
ErrorWait == 10

\* The retry of line 25 is a recursive call, so every 429 nests one more
\* activation of safe_get.  CPython refuses a call deeper than its recursion
\* limit (1000 unless the program changes it, and this one does not) with
\* RecursionError, an Exception, which line 33 catches.  The frames of the
\* caller and of the HTTP library are not counted here, so the interpreter
\* gives up no later than at this nesting.
RecursionLimit == 1000

\* delay_range of the main script (line 109, the default of line 13) and of
\* the update script (update_specific_teams.py line 4)
DelayRanges == {<<2, 6>>, <<3, 7>>}

\* statuses the remote answers with: success, rate limiting, and others
OtherStatuses == {403, 500}
Statuses == {200, 429} \cup OtherStatuses

FetchInit ==
  /\ delay_range \in DelayRanges
  /\ pc = "idle"
  /\ depth = 0
  /\ requests = 0
  /\ status = 0
  /\ raised = "none"
  /\ seen429 = FALSE
  /\ cooldowns = 0
  /\ delays = 0
  /\ last_delay = 0
  /\ backoffs = 0
  /\ slept = 0
  /\ result = "pending"

\* safe_get(url) is entered (line 18)
SafeGetEnter ==
  /\ pc' = "request"
  /\ depth' = 1
  /\ requests' = 0
  /\ status' = 0
  /\ raised' = "none"
  /\ seen429' = FALSE
  /\ cooldowns' = 0
  /\ delays' = 0
  /\ last_delay' = 0
  /\ backoffs' = 0
  /\ slept' = 0
  /\ result' = "pending"

\* lines 22-32 without the retry: a 429 fails like any other bad status
OnStatusNoRetry(st) ==
  /\ status' = st
  /\ raised' = "none"
  /\ seen429' = (seen429 \/ st = 429)
  /\ IF st # 200 THEN pc' = "done" /\ result' = "None"
     ELSE pc' = "delay" /\ result' = result

\* lines 22-32 with the retry on every bad status, not on 429 alone
OnStatusRetryAll(st) ==
  /\ status' = st
  /\ raised' = "none"
  /\ seen429' = (seen429 \/ st = 429)
  /\ IF st # 200 THEN pc' = "cooldown" /\ result' = result
     ELSE pc' = "delay" /\ result' = result

\* the branch of lines 22-32 taken on a response with status code st
OnStatus(st) ==
  /\ status' = st
  /\ raised' = "none"
  /\ seen429' = (seen429 \/ st = 429)
  /\ IF st = 429 THEN pc' = "cooldown" /\ result' = result
     ELSE IF st # 200 THEN pc' = "done" /\ result' = "None"
     ELSE pc' = "delay" /\ result' = result

\* requests.get answers with a status (lines 21-32); the remote rate-limits
\* at most maxStreak times in a row
RequestAnswered(maxStreak) ==
  /\ pc = "request"
  /\ \E st \in Statuses :
       /\ st = 429 => depth <= maxStreak
       /\ OnStatus(st)
  /\ requests' = requests + 1
  /\ UNCHANGED <<depth, cooldowns, delays, last_delay, backoffs, slept>>

\* requests.get raises (timeout, connection error): line 33 catches it
RequestFails ==
  /\ pc = "request"
  /\ requests' = requests + 1
  /\ raised' = "network"
  /\ pc' = "backoff"
  /\ UNCHANGED <<depth, status, seen429, cooldowns, delays, last_delay,
                 backoffs, slept, result>>

\* lines 24-25: the 60 second wait, then the recursive call; the call is
\* refused with RecursionError when the interpreter's limit is reached
Cooldown ==
  /\ pc = "cooldown"
  /\ slept' = slept + RateLimitWait
  /\ cooldowns' = cooldowns + 1
  /\ IF depth < RecursionLimit
     THEN pc' = "request" /\ depth' = depth + 1 /\ raised' = raised
     ELSE pc' = "backoff" /\ depth' = depth /\ raised' = "recursion"
  /\ UNCHANGED <<requests, status, seen429, delays, last_delay, backoffs, result>>

\* lines 31-32 with the delay left out on the retry path
PoliteDelayFirstOnly ==
  /\ pc = "delay"
  /\ IF depth = 1
     THEN /\ \E d \in delay_range[1]..delay_range[2] :
               last_delay' = d /\ slept' = slept + d
          /\ delays' = delays + 1
     ELSE UNCHANGED <<last_delay, slept, delays>>
  /\ result' = "response"
  /\ pc' = "done"
  /\ UNCHANGED <<depth, requests, status, raised, seen429, cooldowns, backoffs>>

\* lines 31-32: the politeness delay (random.uniform draws a real of the range;
\* the model draws its whole seconds), then the response is returned (through
\* every enclosing activation, each of which returns what its callee returned)
PoliteDelay ==
  /\ pc = "delay"
  /\ \E d \in delay_range[1]..delay_range[2] :
       /\ last_delay' = d
       /\ slept' = slept + d
  /\ delays' = delays + 1
  /\ result' = "response"
  /\ pc' = "done"
  /\ UNCHANGED <<depth, requests, status, raised, seen429, cooldowns, backoffs>>

\* lines 34-36 with a retry after the wait instead of the return
BackoffRetry ==
  /\ pc = "backoff"
  /\ slept' = slept + ErrorWait
  /\ backoffs' = backoffs + 1
  /\ IF backoffs = 0
     THEN pc' = "request" /\ result' = result /\ raised' = "none"
     ELSE pc' = "done" /\ result' = "None" /\ raised' = raised
  /\ UNCHANGED <<depth, requests, status, seen429, cooldowns, delays, last_delay>>

\* lines 34-36: the 10 second wait, then None is returned
Backoff ==
  /\ pc = "backoff"
  /\ slept' = slept + ErrorWait
  /\ backoffs' = backoffs + 1
  /\ result' = "None"
  /\ pc' = "done"
  /\ UNCHANGED <<depth, requests, status, raised, seen429, cooldowns, delays,
                 last_delay>>

otherVars == <<cleanVars, mergeVars, delay_range, dlVars, runVars>>

FetchCall == pc = "idle" /\ SafeGetEnter /\ UNCHANGED otherVars
FetchRequest == RequestAnswered(RecursionLimit) /\ UNCHANGED otherVars
FetchRequestFails == RequestFails /\ UNCHANGED otherVars
FetchCooldown == Cooldown /\ UNCHANGED otherVars
FetchDelay == PoliteDelay /\ UNCHANGED otherVars
FetchBackoff == Backoff /\ UNCHANGED otherVars

FetchNext ==
  \/ FetchCall
  \/ FetchRequest
  \/ FetchRequestFails
  \/ FetchCooldown
  \/ FetchDelay
  \/ FetchBackoff


(***************************************************************************)
(* The cache files: to_csv and read_csv.                                   *)
(***************************************************************************)
RECURSIVE DecimalText(_)
DecimalText(n) ==
  IF n < 10 THEN <<DigitChar(n)>>
  ELSE Append(DecimalText(n \div 10), DigitChar(n % 10))

\* the text to_csv writes for a cell: a missing value is the empty text
CellText(c) ==
  IF c.t = "num" THEN (IF c.n < 0 THEN <<"-">> \o DecimalText(-c.n) ELSE DecimalText(c.n))
  ELSE IF c.t = "str" THEN c.s
  ELSE <<>>

\* df.to_csv(path, index=False): a header row and one row of texts per row
ToCsv(df) ==
  [state |-> "csv", cols |-> df.cols,
   rows |-> [i \in 1..Len(df.rows) |-> [c \in df.cols |-> CellText(df.rows[i][c])]]]

AbsentFile == [state |-> "absent", cols |-> {}, rows |-> <<>>]
UnreadableFile == [state |-> "unreadable", cols |-> {}, rows |-> <<>>]

\* texts read_csv takes for a missing value (the ones the model can meet)
NaTexts == {<<>>, <<"N", "a", "N">>, <<"n", "a", "n">>, <<"N", "A">>}

IsNumberText(s) ==
  \/ AllDigits(s)
  \/ (Len(s) > 1 /\ s[1] = "-" /\ AllDigits(Tail(s)))

NumberOfText(s) ==
  IF s[1] = "-" THEN Num(0 - DecimalValue(Tail(s))) ELSE Num(DecimalValue(s))

\* pd.read_csv(path): a column whose texts are all numbers or missing is
\* numeric, any other column holds texts; a missing text reads as NaN
ReadCsv(file) ==
  LET numeric(c) ==
        \A i \in 1..Len(file.rows) :
          file.rows[i][c] \in NaTexts \/ IsNumberText(file.rows[i][c])
      cell(c, s) ==
        IF s \in NaTexts THEN NaN
        ELSE IF numeric(c) THEN NumberOfText(s)
        ELSE Str(s)
  IN  DataFrame(file.cols,
        [i \in 1..Len(file.rows) |-> [c \in file.cols |-> cell(c, file.rows[i][c])]])

(***************************************************************************)
(* FBRefDownloader.download_matchlogs.                                     *)
(***************************************************************************)
UpperLetters ==
  <<"A", "B", "C", "D", "E", "F", "G", "H", "I", "J", "K", "L", "M", "N", "O",
    "P", "Q", "R", "S", "T", "U", "V", "W", "X", "Y", "Z">>
LowerLetters ==
  <<"a", "b", "c", "d", "e", "f", "g", "h", "i", "j", "k", "l", "m", "n", "o",
    "p", "q", "r", "s", "t", "u", "v", "w", "x", "y", "z">>

LowerChar(c) ==
  IF \E i \in 1..Len(UpperLetters) : UpperLetters[i] = c
  THEN LowerLetters[CHOOSE i \in 1..Len(UpperLetters) : UpperLetters[i] = c]
  ELSE c

\* team_name.lower().replace(' ', '-')
NormalizeName(name) ==
  [i \in 1..Len(name) |->
     IF LowerChar(name[i]) = " " THEN "-" ELSE LowerChar(name[i])]

\* the file_path of line 40
CachePath(name) ==
  <<"d", "a", "t", "a", "/">> \o NormalizeName(name)
    \o <<"_", "m", "a", "t", "c", "h", "l", "o", "g", "s", ".", "c", "s", "v">>

\* the team names, team ids and season lists the scripts call with
\* (fbref_data_downloader.py lines 111-195, update_specific_teams.py 6-11),
\* a spelling of a team name with a space, and a request for one old season
TeamNames == {QarabagFK, QarabagFKSpaced, AthleticClubBilbao}
TeamIds == {"44b65410", "2b390eca"}
SeasonLists == {<<Season2324, Season2425>>, <<Season2526>>, <<Season2324>>}

Paths == {CachePath(name) : name \in TeamNames}

NoneDf == [none |-> TRUE, df |-> DataFrame({}, <<>>)]
SomeDf(df) == [none |-> FALSE, df |-> df]

\* the table of a schedule page, as read_html returns it: a played match and
\* a fixture still to be played (no score yet)
page_cols == raw_cols \ {"Team", "Season"}
LaterDate == Str(<<"2", "0", "2", "4", "-", "0", "5", "-", "1", "8">>)
ScheduleTable ==
  DataFrame(page_cols,
    <<Restrict(RawRow(GoodDate, Num(2), Num(1), Num(1), Num(2), Num(50),
                      OpponentOf(1), <<>>, <<>>), page_cols),
      Restrict(RawRow(LaterDate, NaN, NaN, NaN, NaN, NaN,
                      OpponentOf(2), <<>>, <<>>), page_cols)>>)

\* a table none of whose dates parses
UndatedTable ==
  DataFrame(page_cols,
    <<Restrict(RawRow(BadDay, Num(0), Num(0), Num(1), Num(1), Num(50),
                      OpponentOf(1), <<>>, <<>>), page_cols)>>)

\* what a page yields at line 59: a table, or none (read_html raises)
Pages == {"table", "no_table"}
TableOf(page) == IF page = "undated" THEN UndatedTable ELSE ScheduleTable

\* lines 55-57, 60-62 and 74-75: a season that fails is skipped (continue, or
\* the end of the except block) and the loop goes on with the season after
\* position i of n
AfterSkipBreak(i, n) == n + 1
AfterSkip(i, n) == i + 1

\* the tagging with the two arguments taken one for the other
TagSwapped(df, season, name) ==
  DataFrame(df.cols \cup {"Season", "Team"},
    [i \in 1..Len(df.rows) |->
       SetCol(SetCol(df.rows[i], "Season", Str(name)), "Team", Str(season))])

\* lines 68-69: every row tagged with the season and the team name
Tag(df, season, name) ==
  DataFrame(df.cols \cup {"Season", "Team"},
    [i \in 1..Len(df.rows) |->
       SetCol(SetCol(df.rows[i], "Season", Str(season)), "Team", Str(name))])

\* os.path.exists(file_path), line 41
CacheNeverExists(path) == FALSE
CacheExistsReadable(path) == cache[path].state = "csv"
CacheExists(path) == cache[path].state # "absent"

\* the cached dataset cut down to the seasons asked for
DownloadOnHitFiltered(name, tid, ss) ==
  LET df == ReadCsv(cache[CachePath(name)])
      asked(i) == \E k \in 1..Len(ss) : df.rows[i]["Season"] = Str(ss[k])
      RECURSIVE pick(_)
      pick(i) == IF i > Len(df.rows) THEN <<>>
                 ELSE (IF asked(i) THEN <<df.rows[i]>> ELSE <<>>) \o pick(i + 1)
  IN  DataFrame(df.cols, pick(1))

\* what download_matchlogs(team_name, team_id, seasons) returns at line 44
DownloadOnHit(name, tid, ss) == ReadCsv(cache[CachePath(name)])

DlInit ==
  /\ cache \in [Paths -> {AbsentFile, UnreadableFile}]
  /\ dl_pc = "idle"
  /\ team_name = <<>>
  /\ team_id = ""
  /\ seasons = <<>>
  /\ cache_hit = FALSE
  /\ idx = 0
  /\ url = <<>>
  /\ all_logs = <<>>
  /\ attempted = <<>>
  /\ succeeded = <<>>
  /\ extracted = {}
  /\ ret = NoneDf

fetchIdle ==
  /\ pc' = "idle"
  /\ depth' = 0
  /\ requests' = 0
  /\ status' = 0
  /\ raised' = "none"
  /\ seen429' = FALSE
  /\ cooldowns' = 0
  /\ delays' = 0
  /\ last_delay' = 0
  /\ backoffs' = 0
  /\ slept' = 0
  /\ result' = "pending"

restVars == <<cleanVars, mergeVars, delay_range, runVars>>

\* lines 38-50: the call, the cache check, and the return on a cache hit
\* the file holds rows of every season of ss
Covers(file, ss) ==
  \A i \in 1..Len(ss) : \E k \in 1..Len(file.rows) : file.rows[k]["Season"] = ss[i]

\* the call, were the cached file checked against the seasons asked for
DownloadCallRevalidating(name, tid, ss) ==
  /\ dl_pc \in {"idle", "returned"}
  /\ team_name' = name
  /\ team_id' = tid
  /\ seasons' = ss
  /\ IF CacheExists(CachePath(name)) /\ Covers(cache[CachePath(name)], ss)
     THEN /\ cache_hit' = TRUE
          /\ ret' = IF cache[CachePath(name)].state = "csv"
                    THEN SomeDf(DownloadOnHit(name, tid, ss))
                    ELSE NoneDf
          /\ dl_pc' = "returned"
          /\ idx' = 0
     ELSE /\ cache_hit' = FALSE
          /\ ret' = NoneDf
          /\ dl_pc' = "season"
          /\ idx' = 1
  /\ all_logs' = <<>>
  /\ attempted' = <<>>
  /\ succeeded' = <<>>
  /\ url' = <<>>
  /\ UNCHANGED <<cache, extracted, fetchVars>>

DownloadCall(name, tid, ss) ==
  /\ dl_pc \in {"idle", "returned"}
  /\ team_name' = name
  /\ team_id' = tid
  /\ seasons' = ss
  /\ IF CacheExists(CachePath(name))
     THEN /\ cache_hit' = TRUE
          /\ ret' = IF cache[CachePath(name)].state = "csv"
                    THEN SomeDf(DownloadOnHit(name, tid, ss))
                    ELSE NoneDf
          /\ dl_pc' = "returned"
          /\ idx' = 0
     ELSE /\ cache_hit' = FALSE
          /\ ret' = NoneDf
          /\ dl_pc' = "season"
          /\ idx' = 1
  /\ all_logs' = <<>>
  /\ attempted' = <<>>
  /\ succeeded' = <<>>
  /\ url' = <<>>
  /\ UNCHANGED <<cache, extracted, fetchVars>>

Download ==
  /\ \E name \in TeamNames, tid \in TeamIds, ss \in SeasonLists :
       DownloadCall(name, tid, ss)
  /\ UNCHANGED restVars

\* lines 52-54: the URL of the next season is built and safe_get is called
SeasonFetchStep ==
  /\ dl_pc = "season"
  /\ idx <= Len(seasons)
  /\ url' = <<team_id, seasons[idx], team_name>>
  /\ SafeGetEnter
  /\ dl_pc' = "fetching"
  /\ attempted' = Append(attempted, seasons[idx])
  /\ UNCHANGED <<cache, team_name, team_id, seasons, cache_hit, idx, all_logs,
                 succeeded, extracted, ret>>

SeasonFetch == SeasonFetchStep /\ UNCHANGED restVars

dlFrame == UNCHANGED <<dlVars, restVars>>

DlRequest == dl_pc = "fetching" /\ RequestAnswered(MaxRetries) /\ dlFrame
DlRequestFails == dl_pc = "fetching" /\ RequestFails /\ dlFrame
DlCooldown == dl_pc = "fetching" /\ Cooldown /\ dlFrame
DlDelay == dl_pc = "fetching" /\ PoliteDelay /\ dlFrame
DlBackoff == dl_pc = "fetching" /\ Backoff /\ dlFrame

\* lines 55-75: safe_get has returned; the season is skipped on failure, on a
\* page without a table and on a parse error, and its tagged table is
\* collected otherwise
\* the step, were the collected tables saved after every season
SeasonParseSaving(pages) ==
  /\ dl_pc = "fetching"
  /\ pc = "done"
  /\ IF result = "None"
     THEN /\ all_logs' = all_logs
          /\ succeeded' = Append(succeeded, FALSE)
          /\ extracted' = extracted
          /\ idx' = AfterSkip(idx, Len(seasons))
     ELSE \E page \in pages :
            IF page = "no_table"
            THEN /\ all_logs' = all_logs
                 /\ succeeded' = Append(succeeded, FALSE)
                 /\ extracted' = extracted
                 /\ idx' = AfterSkip(idx, Len(seasons))
            ELSE /\ all_logs' = Append(all_logs,
                                  Tag(TableOf(page), seasons[idx], team_name))
                 /\ succeeded' = Append(succeeded, TRUE)
                 /\ extracted' = extracted \cup {<<team_name, seasons[idx]>>}
                 /\ idx' = idx + 1
  /\ dl_pc' = "season"
  /\ fetchIdle
  /\ cache' = IF all_logs' = <<>> THEN cache
              ELSE [cache EXCEPT ![CachePath(team_name)] = ToCsv(Concat(all_logs'))]
  /\ UNCHANGED <<team_name, team_id, seasons, cache_hit, url, attempted, ret>>

SeasonParseOf(pages) ==
  /\ dl_pc = "fetching"
  /\ pc = "done"
  /\ IF result = "None"
     THEN /\ all_logs' = all_logs
          /\ succeeded' = Append(succeeded, FALSE)
          /\ extracted' = extracted
          /\ idx' = AfterSkip(idx, Len(seasons))
     ELSE \E page \in pages :
            IF page = "no_table"
            THEN /\ all_logs' = all_logs
                 /\ succeeded' = Append(succeeded, FALSE)
                 /\ extracted' = extracted
                 /\ idx' = AfterSkip(idx, Len(seasons))
            ELSE /\ all_logs' = Append(all_logs,
                                  Tag(TableOf(page), seasons[idx], team_name))
                 /\ succeeded' = Append(succeeded, TRUE)
                 /\ extracted' = extracted \cup {<<team_name, seasons[idx]>>}
                 /\ idx' = idx + 1
  /\ dl_pc' = "season"
  /\ fetchIdle
  /\ UNCHANGED <<cache, team_name, team_id, seasons, cache_hit, url,
                 attempted, ret>>

SeasonParse == SeasonParseOf(Pages) /\ UNCHANGED restVars

\* lines 77-84: the tables are concatenated, saved and returned, or None is
\* returned when no season yielded a table
FinishStepCachingEmpty ==
  /\ dl_pc = "season"
  /\ idx > Len(seasons)
  /\ IF all_logs # <<>>
     THEN /\ cache' = [cache EXCEPT ![CachePath(team_name)] = ToCsv(Concat(all_logs))]
          /\ ret' = SomeDf(Concat(all_logs))
     ELSE /\ cache' = [cache EXCEPT ![CachePath(team_name)] = ToCsv(DataFrame({}, <<>>))]
          /\ ret' = NoneDf
  /\ dl_pc' = "returned"
  /\ UNCHANGED <<team_name, team_id, seasons, cache_hit, idx, url, all_logs,
                 attempted, succeeded, extracted, fetchVars>>

FinishStep ==
  /\ dl_pc = "season"
  /\ idx > Len(seasons)
  /\ IF all_logs # <<>>
     THEN /\ cache' = [cache EXCEPT ![CachePath(team_name)] = ToCsv(Concat(all_logs))]
          /\ ret' = SomeDf(Concat(all_logs))
     ELSE /\ cache' = cache
          /\ ret' = NoneDf
  /\ dl_pc' = "returned"
  /\ UNCHANGED <<team_name, team_id, seasons, cache_hit, idx, url, all_logs,
                 attempted, succeeded, extracted, fetchVars>>

Finish == FinishStep /\ UNCHANGED restVars

Next ==
  \/ Download
  \/ SeasonFetch
  \/ DlRequest
  \/ DlRequestFails
  \/ DlCooldown
  \/ DlDelay
  \/ DlBackoff
  \/ SeasonParse
  \/ Finish

(***************************************************************************)
(* SpecRun: runs of the two scripts, one after the other, over the same    *)
(* data directory.  Of the teams of the main script the model keeps the    *)
(* two the update script names, in the order of the dictionary.            *)
(***************************************************************************)
MaxRuns == 2

main_teams == <<<<AthleticClubBilbao, "2b390eca">>, <<QarabagFK, "44b65410">>>>
main_seasons == <<Season2324, Season2425>>
update_teams == <<<<QarabagFK, "44b65410">>, <<AthleticClubBilbao, "2b390eca">>>>
update_seasons == <<Season2526>>

Scripts == {"main", "update"}
TeamsOfScript(sc) == IF sc = "main" THEN main_teams ELSE update_teams
SeasonsOfScript(sc) == IF sc = "main" THEN main_seasons ELSE update_seasons
DelayOfScript(sc) == IF sc = "main" THEN <<2, 6>> ELSE <<3, 7>>

\* what a page yields in a run: also a table none of whose dates parses
RunPages == {"table", "undated", "no_table"}

RunInit ==
  /\ run_pc = "idle"
  /\ script = "none"
  /\ t_idx = 0
  /\ updFile = DataFrame({}, <<>>)
  /\ runs = 0

\* a script starts: the downloader is built and all_dfs is empty
RunStart ==
  /\ run_pc \in {"idle", "merged", "empty", "aborted"}
  /\ runs < MaxRuns
  /\ \E sc \in Scripts :
       /\ script' = sc
       /\ delay_range' = DelayOfScript(sc)
  /\ runs' = runs + 1
  /\ t_idx' = 1
  /\ all_dfs' = <<>>
  /\ run_pc' = "loop"
  /\ UNCHANGED <<combined, allFile, mergeDone, updFile, cleanVars, fetchVars,
                 dlVars>>

\* the loop over teams calls download_matchlogs for the next team
RunCall ==
  /\ run_pc = "loop"
  /\ t_idx <= Len(TeamsOfScript(script))
  /\ DownloadCall(TeamsOfScript(script)[t_idx][1], TeamsOfScript(script)[t_idx][2],
                  SeasonsOfScript(script))
  /\ run_pc' = "call"
  /\ UNCHANGED <<script, t_idx, updFile, runs, cleanVars, mergeVars, delay_range>>

RunSeasonParse == SeasonParseOf(RunPages) /\ UNCHANGED restVars

\* all_dfs.append(df)
CollectedFirst(dfs, df) == <<df>> \o dfs
Collected(dfs, df) == Append(dfs, df)

\* the call has returned: a dataset is cleaned and appended to all_dfs, None
\* is passed over; an exception of clean_matchlog ends the script
RunCollect ==
  /\ run_pc = "call"
  /\ dl_pc = "returned"
  /\ IF ret.none
     THEN /\ all_dfs' = all_dfs
          /\ run_pc' = "loop"
     ELSE IF CleanMatchlog(ret.df).raised
     THEN /\ all_dfs' = all_dfs
          /\ run_pc' = "aborted"
     ELSE /\ all_dfs' = Collected(all_dfs, CleanMatchlog(ret.df).df)
          /\ run_pc' = "loop"
  /\ t_idx' = t_idx + 1
  /\ UNCHANGED <<combined, allFile, mergeDone, script, updFile, runs, cleanVars,
                 delay_range, fetchVars, dlVars>>

\* after the loop: the datasets are concatenated and saved (merge_teams in
\* the main script, pd.concat and to_csv in the update script) when all_dfs
\* holds any, and the script says that there is no data otherwise
RunMerge ==
  /\ run_pc = "loop"
  /\ t_idx > Len(TeamsOfScript(script))
  /\ IF all_dfs # <<>>
     THEN /\ combined' = IF script = "main" THEN MergeTeams(all_dfs)
                         ELSE Concat(all_dfs)
          /\ allFile' = IF script = "main" THEN MergeTeams(all_dfs) ELSE allFile
          /\ updFile' = IF script = "main" THEN updFile ELSE Concat(all_dfs)
          /\ run_pc' = "merged"
     ELSE /\ UNCHANGED <<combined, allFile, updFile>>
          /\ run_pc' = "empty"
  /\ UNCHANGED <<all_dfs, mergeDone, script, t_idx, runs, cleanVars, delay_range,
                 fetchVars, dlVars>>

RunNext ==
  \/ RunStart
  \/ RunCall
  \/ SeasonFetch
  \/ DlRequest
  \/ DlRequestFails
  \/ DlCooldown
  \/ DlDelay
  \/ DlBackoff
  \/ RunSeasonParse
  \/ Finish
  \/ RunCollect
  \/ RunMerge

(***************************************************************************)
(* The specifications.                                                     *)
(***************************************************************************)
Init == CleanInit /\ MergeInit /\ FetchInit /\ DlInit /\ RunInit

Spec == Init /\ [][Next]_vars

\* the part of the state a specification does not move starts in one state:
\* no cache file, and for the pure functions the default delay_range
InitFetch == Init /\ cache = [p \in Paths |-> AbsentFile]
InitPure == InitFetch /\ delay_range = <<2, 6>>

SpecClean == InitPure /\ [][CleanNext]_vars
SpecMerge == InitPure /\ [][MergeNext]_vars
SpecFetch == InitFetch /\ [][FetchNext]_vars
SpecColumns == InitPure /\ [][ColumnsNext]_vars
SpecRun == InitPure /\ [][RunNext]_vars

(***************************************************************************)
(* Claims about clean_matchlog.                                            *)
(***************************************************************************)
Less(a, b) == a.t = "num" /\ b.t = "num" /\ a.n < b.n

\* C1: in every record clean_matchlog returns, Outcome is Win iff GF > GA,
\* Draw iff GF = GA and Loss iff GF < GA, with GF and GA numbers or missing.
C1_OutcomeIff ==
  cleanDone =>
    \A i \in 1..Len(cleaned.rows) :
      LET r == cleaned.rows[i] IN
        /\ (r["Outcome"] = Win) <=> Greater(r["GF"], r["GA"])
        /\ (r["Outcome"] = Draw) <=> Equal(r["GF"], r["GA"])
        /\ (r["Outcome"] = Loss) <=> Less(r["GF"], r["GA"])

\* the positions of the raw rows whose date parses
ParsableRows == {i \in 1..Len(raw.rows) : ToDatetime(raw.rows[i]["Date"]).t = "date"}

\* the k-th smallest position of a set of positions
KthOf(P, k) == CHOOSE j \in P : Cardinality({i \in P : i <= j}) = k

\* C2: clean_matchlog returns exactly the raw rows whose date parses, each
\* once and in input order, whatever their numeric cells coerce to.
C2_KeepsParsableRows ==
  cleanDone =>
    /\ Len(cleaned.rows) = Len(raw.rows) - Cardinality({i \in 1..Len(raw.rows) : i \notin ParsableRows})
    /\ \A k \in 1..Len(cleaned.rows) :
         /\ k <= Cardinality(ParsableRows)
         /\ cleaned.rows[k]["Opponent"] = raw.rows[KthOf(ParsableRows, k)]["Opponent"]
    /\ \A i \in ParsableRows :
         Cardinality({k \in 1..Len(cleaned.rows) :
                        cleaned.rows[k]["Opponent"] = raw.rows[i]["Opponent"]}) = 1
    /\ \A i \in 1..Len(raw.rows) : i \notin ParsableRows =>
         \A k \in 1..Len(cleaned.rows) :
           cleaned.rows[k]["Opponent"] # raw.rows[i]["Opponent"]

\* a dataset where a row with an unparseable date was dropped and a later row
\* whose GF failed coercion was kept
C2_Witness ==
  /\ cleanDone
  /\ Len(raw.rows) = 2 /\ Len(cleaned.rows) = 1
  /\ 1 \notin ParsableRows
  /\ cleaned.rows[1]["GF"] = NaN
  /\ cleaned.rows[1]["Opponent"] = OpponentOf(2)

(***************************************************************************)
(* Claims about merge_teams.                                               *)
(***************************************************************************)
RECURSIVE SizeSum(_)
SizeSum(sizes) == IF sizes = <<>> THEN 0 ELSE Head(sizes) + SizeSum(Tail(sizes))

Sizes == [i \in 1..Len(all_dfs) |-> Len(all_dfs[i].rows)]

\* the number of rows of the datasets before the i-th
OffsetOf(i) == SizeSum(SubSeq(Sizes, 1, i - 1))

TeamsOf(rows) == {rows[i]["Team"] : i \in 1..Len(rows)}

\* C10: merge_teams returns and persists a dataset of s1+...+sN rows in which
\* the j-th row of the i-th input is the row at s1+...+s(i-1)+j, team and
\* season unchanged; the teams of the output are the teams of the inputs.
C10_MergeAdditive ==
  mergeDone =>
    /\ Len(combined.rows) = SizeSum(Sizes)
    /\ \A i \in 1..Len(all_dfs) : \A j \in 1..Len(all_dfs[i].rows) :
         /\ OffsetOf(i) + j <= Len(combined.rows)
         /\ \A c \in all_dfs[i].cols :
              combined.rows[OffsetOf(i) + j][c] = all_dfs[i].rows[j][c]
    /\ TeamsOf(combined.rows) = UNION {TeamsOf(all_dfs[i].rows) : i \in 1..Len(all_dfs)}
    /\ allFile = combined

\* two teams' datasets merged, one of them holding the same row twice
C10_Witness ==
  /\ mergeDone
  /\ Len(all_dfs) = 2
  /\ Len(all_dfs[1].rows) = 2 /\ all_dfs[1].rows[1] = all_dfs[1].rows[2]
  /\ Len(all_dfs[2].rows) = 1
  /\ TeamsOf(combined.rows) = {Str(QarabagFK), Str(AthleticClubBilbao)}
  /\ Len(combined.rows) = 3

(***************************************************************************)
(* Claims about safe_get.                                                  *)
(***************************************************************************)
\* C5: a call answered 429 k times and then 200 issues k+1 requests, waits
\* 60 seconds k times and returns the response, for every k: as long as the
\* remote has answered nothing but 429 the call goes on to its next request.
C5_RetriesWithoutCeiling ==
  /\ (status = 429 /\ raised # "network") =>
       (pc \in {"cooldown", "request"} /\ result = "pending")
  /\ (pc = "done" /\ status = 200) =>
       /\ result = "response"
       /\ requests = cooldowns + 1
       /\ slept = RateLimitWait * cooldowns + last_delay

\* C6 as claimed: a call that has received a 429 never ends in failure.
C6_NeverFailsAfter429 ==
  (pc = "done" /\ seen429) => result = "response"

\* C6 as amended: a call that has received a 429 ends in failure only when a
\* later request got a status other than 200 and 429 or an exception was
\* raised; a 429 itself is always followed by the wait and another attempt.
C6_FailsOnlyOnLaterError ==
  /\ (pc = "done" /\ seen429 /\ result = "None") =>
       (status \in OtherStatuses \/ raised \in {"network", "recursion"})
  /\ (status = 429 /\ raised = "none") =>
       (pc \in {"cooldown", "request"} /\ result = "pending")

\* a call rate-limited once and then answered 500: failure is reported
C6_Witness ==
  /\ pc = "done" /\ seen429 /\ result = "None"
  /\ status = 500 /\ cooldowns = 1 /\ requests = 2

\* C7: a call returns a response only after exactly one politeness delay, taken
\* after the 200 response and inside delay_range; a failing call takes none.
C7_OnePoliteDelay ==
  /\ result = "response" =>
       /\ pc = "done" /\ status = 200
       /\ delays = 1
       /\ last_delay \in delay_range[1]..delay_range[2]
       /\ slept = RateLimitWait * cooldowns + last_delay
  /\ pc \in {"request", "cooldown", "delay", "backoff"} => delays = 0
  /\ pc = "delay" => (status = 200 /\ result = "pending")
  /\ result = "None" => (delays = 0 /\ last_delay = 0)

\* the update run's downloader returns a response on a retry after a 7 s delay
C7_Witness ==
  /\ pc = "done" /\ result = "response"
  /\ delay_range = <<3, 7>> /\ last_delay = 7
  /\ seen429 /\ requests = 2

\* C8: a status other than 200 and 429 ends the call at once with failure:
\* no request and no wait follows the response.
C8_OtherStatusFailsAtOnce ==
  status \in OtherStatuses =>
    /\ pc = "done" /\ result = "None"
    /\ backoffs = 0 /\ delays = 0
    /\ requests = cooldowns + 1
    /\ slept = RateLimitWait * cooldowns

\* a 403 on the first request, nothing slept
C8_Witness ==
  pc = "done" /\ status = 403 /\ requests = 1 /\ slept = 0 /\ result = "None"

\* C9: a request that raises a network exception is followed by one wait of
\* 10 seconds and then failure, with no further request, also on a retry.
C9_NetworkErrorWaitsOnce ==
  raised = "network" =>
    /\ pc \in {"backoff", "done"}
    /\ requests = cooldowns + 1
    /\ delays = 0
    /\ pc = "backoff" => (backoffs = 0 /\ result = "pending"
                          /\ slept = RateLimitWait * cooldowns)
    /\ pc = "done" => (backoffs = 1 /\ result = "None"
                       /\ slept = RateLimitWait * cooldowns + ErrorWait)

\* the exception on the retry that follows a 429
C9_Witness ==
  /\ pc = "done" /\ raised = "network" /\ seen429
  /\ requests = 2 /\ slept = RateLimitWait + ErrorWait /\ result = "None"

(***************************************************************************)
(* Claims about the cache.                                                 *)
(***************************************************************************)
\* a step from these states is a call of download_matchlogs
AtCall == dl_pc \in {"idle", "returned"}

\* download_matchlogs is called for name while the file of name is readable
HitCall(name) ==
  AtCall /\ team_name' = name /\ cache[CachePath(name)].state = "csv"

\* the previous call returned the cached dataset of the file name maps to
HitBefore(name) ==
  /\ dl_pc = "returned" /\ cache_hit /\ ~ret.none
  /\ CachePath(name) = CachePath(team_name)

\* C3: a call for a team whose cache file exists and is readable returns at
\* once with the file's content, issues no request, sleeps not at all and leaves
\* the file as it is; a second such call returns the same content.
C3_CacheHitIsLocal ==
  [][\A name \in TeamNames : HitCall(name) =>
       /\ dl_pc' = "returned"
       /\ cache_hit'
       /\ ret' = SomeDf(ReadCsv(cache[CachePath(name)]))
       /\ cache' = cache
       /\ pc' = "idle" /\ requests' = 0 /\ slept' = 0
       /\ UNCHANGED fetchVars
       /\ (HitBefore(name) /\ seasons' = seasons /\ team_id' = team_id) => ret' = ret]_vars

\* a call has returned the cached dataset a fetch of two seasons stored
C3_Witness ==
  /\ dl_pc = "returned" /\ cache_hit /\ ~ret.none
  /\ cache[CachePath(team_name)].state = "csv"
  /\ Len(ret.df.rows) = 4
  /\ requests = 0 /\ slept = 0

SeasonsOf(rows) == {rows[i]["Season"] : i \in 1..Len(rows)}

\* C4: with a cache file present the returned dataset is the same for every
\* seasons argument and every team_id: all rows of the file are returned, with
\* the seasons they were stored with, whatever seasons are asked for.
C4_HitIgnoresSeasons ==
  [][\A name \in TeamNames : HitCall(name) =>
       LET file == cache[CachePath(name)] IN
         /\ ~ret'.none
         /\ Len(ret'.df.rows) = Len(file.rows)
         /\ \A i \in 1..Len(file.rows) :
              ret'.df.rows[i]["Season"] = Str(file.rows[i]["Season"])
         /\ HitBefore(name) => ret' = ret]_vars

\* the update run's request for 2025-2026 answered with the cached rows of
\* 2023-2024 and 2024-2025, under the other team's id
C4_Witness ==
  /\ dl_pc = "returned" /\ cache_hit /\ ~ret.none
  /\ seasons = <<Season2526>>
  /\ team_name = QarabagFK /\ team_id = "2b390eca"
  /\ SeasonsOf(ret.df.rows) = {Str(Season2324), Str(Season2425)}
  /\ Len(ret.df.rows) = 4


(***************************************************************************)
(* clean_matchlog and the columns of the raw dataset                       *)
(***************************************************************************)
\* the fixed columns the raw dataset lacks
Lacking == useful_cols \ raw.cols

\* C11: clean_matchlog completes without raising whichever of the twelve
\* fixed columns the raw dataset lacks, and returns the dataset without the
\* absent columns.  The code raises KeyError as soon as GF, GA, xG, xGA,
\* Poss or Date is absent.
C11_NeverRaises ==
  cleanDone =>
    /\ ~cleanRaised
    /\ cleaned.cols \cap useful_cols = useful_cols \cap raw.cols

\* what does hold: the call raises exactly when a column it reads is absent
C11_RaisesIffReadColumnLacks ==
  cleanDone =>
    (cleanRaised <=>
       Lacking \cap {"GF", "GA", "xG", "xGA", "Poss", "Date"} # {})

(***************************************************************************)
(* The derived differences                                                 *)
(***************************************************************************)
\* the raw row the k-th cleaned row was made from
RawOf(k) == raw.rows[KthOf(ParsableRows, k)]

\* C13: in every record clean_matchlog returns whose goals for and against
\* are numbers, GoalDiff is goals for minus goals against, and xGDiff is
\* xG minus xGA when both are numbers; a raw row with GF "2" and GA "2"
\* comes out with GoalDiff 0 and Outcome Draw.
C13_ExactDiffs ==
  (cleanDone /\ ~cleanRaised) =>
    \A k \in 1..Len(cleaned.rows) :
      LET gf == ToNumeric(RawOf(k)["GF"])
          ga == ToNumeric(RawOf(k)["GA"])
          xg == ToNumeric(RawOf(k)["xG"])
          xga == ToNumeric(RawOf(k)["xGA"])
      IN  /\ (gf.t = "num" /\ ga.t = "num") =>
                cleaned.rows[k]["GoalDiff"] = Num(gf.n - ga.n)
          /\ (xg.t = "num" /\ xga.t = "num") =>
                cleaned.rows[k]["xGDiff"] = Num(xg.n - xga.n)
          /\ (RawOf(k)["GF"] = Str(<<"2">>) /\ RawOf(k)["GA"] = Str(<<"2">>)) =>
                /\ cleaned.rows[k]["GoalDiff"] = Num(0)
                /\ cleaned.rows[k]["Outcome"] = Draw

\* a win by one goal cleaned after a 2-2 draw given as text, the second with
\* a negative xGDiff
C13_Witness ==
  /\ cleanDone /\ ~cleanRaised
  /\ Len(cleaned.rows) = 2
  /\ RawOf(1)["GF"] = Str(<<"2">>) /\ RawOf(1)["GA"] = Str(<<"2">>)
  /\ cleaned.rows[1]["Outcome"] = Draw
  /\ cleaned.rows[2]["GoalDiff"] = Num(1)
  /\ cleaned.rows[2]["xGDiff"] = Num(0 - 2)

(***************************************************************************)
(* The season loop of download_matchlogs                                   *)
(***************************************************************************)
\* the page tables, tagged, of the seasons among the first n that gave one
RECURSIVE OkChunks(_)
OkChunks(n) ==
  IF n = 0 THEN <<>>
  ELSE IF succeeded[n]
       THEN Append(OkChunks(n - 1), Tag(ScheduleTable, seasons[n], team_name))
       ELSE OkChunks(n - 1)

Range(f) == {f[i] : i \in DOMAIN f}

FetchingCallReturned == dl_pc = "returned" /\ ~cache_hit

\* C14: in a call that found no cache file, safe_get is called for every
\* requested season once and in list order, whatever the earlier seasons
\* gave, and the call returns the concatenation in season order of the
\* tables of the seasons that gave one (None when none did).
C14_EverySeasonAttempted ==
  /\ (dl_pc \in {"season", "fetching"}) =>
       /\ Len(attempted) <= Len(seasons)
       /\ attempted = SubSeq(seasons, 1, Len(attempted))
  /\ FetchingCallReturned =>
       /\ attempted = seasons
       /\ Len(succeeded) = Len(seasons)
       /\ ret = IF OkChunks(Len(seasons)) = <<>> THEN NoneDf
                ELSE SomeDf(Concat(OkChunks(Len(seasons))))

\* two seasons were requested, the first failed and the second gave its table
C14_Witness ==
  /\ FetchingCallReturned
  /\ Len(seasons) = 2
  /\ succeeded = <<FALSE, TRUE>>
  /\ ~ret.none
  /\ \A i \in 1..Len(ret.df.rows) : ret.df.rows[i]["Season"] = Str(seasons[2])
  /\ Len(ret.df.rows) = Len(ScheduleTable.rows)

(***************************************************************************)
(* The cache files                                                         *)
(***************************************************************************)
\* download_matchlogs is called for name while the file of name exists and
\* cannot be read
UnreadableCall(name) ==
  AtCall /\ team_name' = name /\ cache[CachePath(name)].state = "unreadable"

\* C15: a call for a team whose cache file exists and cannot be read returns
\* None at once, without raising, without a request or a sleep, and leaves
\* the file as it is; no step of any call rewrites or removes an unreadable
\* file, so every later call for the team ends the same way.
C15_UnreadableCacheStays ==
  [][/\ \A name \in TeamNames : UnreadableCall(name) =>
          /\ dl_pc' = "returned"
          /\ cache_hit'
          /\ ret' = NoneDf
          /\ cache' = cache
          /\ UNCHANGED fetchVars
     /\ \A p \in Paths : cache[p].state = "unreadable" => cache'[p] = cache[p]]_vars

\* a call for a team with an unreadable file has returned None without a
\* request, after a fetch stored the file of the other team
C15_Witness ==
  /\ dl_pc = "returned" /\ cache_hit /\ ret.none
  /\ cache[CachePath(team_name)].state = "unreadable"
  /\ \E p \in Paths : cache[p].state = "csv"
  /\ requests = 0 /\ slept = 0

\* C16: a cache file that exists is never modified, overwritten or removed
\* by any step of any call, whatever team name, seasons and responses the
\* calls get: its content is the one the first storing call gave it.
C16_CacheFileIsFixed ==
  [][\A p \in Paths : cache[p].state # "absent" => cache'[p] = cache[p]]_vars

\* a call under the spelling "Qarabag FK" for 2023-2024 was answered from the
\* file a call for "Qarabag-FK" stored with the rows of 2025-2026 only
C16_Witness ==
  /\ dl_pc = "returned" /\ cache_hit /\ ~ret.none
  /\ team_name = QarabagFKSpaced
  /\ seasons = <<Season2324>>
  /\ cache[CachePath(team_name)].state = "csv"
  /\ \A k \in 1..Len(cache[CachePath(team_name)].rows) :
       /\ cache[CachePath(team_name)].rows[k]["Season"] = Season2526
       /\ cache[CachePath(team_name)].rows[k]["Team"] = QarabagFK

\* C17: a call that fetches writes the cache only in the step that ends it,
\* after safe_get has returned for every requested season: it writes the one
\* file of the team, with the concatenation of all collected tables, which is
\* the dataset it returns.
C17_OneWriteAtTheEnd ==
  [][cache' # cache =>
       /\ dl_pc = "season" /\ ~cache_hit
       /\ idx > Len(seasons)
       /\ attempted = seasons /\ Len(succeeded) = Len(seasons)
       /\ pc = "idle"
       /\ dl_pc' = "returned"
       /\ ~ret'.none
       /\ ret'.df = Concat(OkChunks(Len(seasons)))
       /\ cache'[CachePath(team_name)] = ToCsv(ret'.df)
       /\ \A p \in Paths \ {CachePath(team_name)} : cache'[p] = cache[p]]_vars

\* a call for two seasons, the second of which failed, has stored and
\* returned the table of the first
C17_Witness ==
  /\ FetchingCallReturned
  /\ Len(seasons) = 2
  /\ succeeded = <<TRUE, FALSE>>
  /\ ~ret.none
  /\ cache[CachePath(team_name)] = ToCsv(ret.df)
  /\ Len(cache[CachePath(team_name)].rows) = Len(ScheduleTable.rows)

\* download_matchlogs is called for name while name has no cache file
MissCall(name) ==
  AtCall /\ team_name' = name /\ cache[CachePath(name)].state = "absent"

\* C20: a fetching call none of whose seasons gave a table returns None and
\* leaves the team without a cache file; a call for a team without a cache
\* file goes to the network.
C20_FailedTeamIsNotCached ==
  [][/\ (dl_pc = "season" /\ dl_pc' = "returned" /\ TRUE \notin Range(succeeded)) =>
          /\ ret' = NoneDf
          /\ cache' = cache
          /\ cache'[CachePath(team_name)].state = "absent"
     /\ \A name \in TeamNames : MissCall(name) =>
          /\ dl_pc' = "season" /\ ~cache_hit'
          /\ idx' = 1 /\ attempted' = <<>>
          /\ cache' = cache]_vars

\* both requested seasons failed, one at least after a request was sent: the
\* call returned None and the team has no file
C20_Witness ==
  /\ FetchingCallReturned
  /\ succeeded = <<FALSE, FALSE>>
  /\ attempted = seasons
  /\ ret.none
  /\ cache[CachePath(team_name)].state = "absent"

(***************************************************************************)
(* The runs of the scripts                                                 *)
(***************************************************************************)
\* C12: every dataset a script collects for the merge holds at least one
\* row: a team all of whose seasons failed and a team all of whose rows were
\* dropped for their dates are not among the merge inputs.  The scripts test
\* only "df is not None", so the cleaned dataset of a team whose dates all
\* failed to parse is appended with no row.
C12_MergeInputsHaveRows ==
  \A i \in 1..Len(all_dfs) : Len(all_dfs[i].rows) >= 1

\* what does hold: a team for which download_matchlogs returned None is
\* passed over and the loop goes on with the next team
C12_NoneIsPassedOver ==
  [][(run_pc = "call" /\ dl_pc = "returned" /\ ret.none /\ run_pc' # run_pc) =>
       /\ all_dfs' = all_dfs
       /\ run_pc' = "loop"
       /\ t_idx' = t_idx + 1]_vars

\* the position of the team of a row in the dictionary of the script
TeamPos(row) ==
  CHOOSE k \in 1..Len(TeamsOfScript(script)) :
    Str(TeamsOfScript(script)[k][1]) = row["Team"]

AllSeasons == <<Season2324, Season2425, Season2526>>
SeasonPos(row) == CHOOSE k \in 1..Len(AllSeasons) : Str(AllSeasons[k]) = row["Season"]
TablePos(row) == CHOOSE k \in 1..2 : OpponentOf(k) = row["Opponent"]

\* C18: the combined dataset of a run is the cleaned datasets one after the
\* other, and so is the file: a row of a team processed earlier stands before
\* a row of a team processed later, and the rows of one team stand in season
\* order, those of one season in the order of the page table.
C18_RowsInProcessingOrder ==
  run_pc = "merged" =>
    /\ combined.rows = ConcatRows(all_dfs)
    /\ (IF script = "main" THEN allFile ELSE updFile) = combined
    /\ \A i, j \in 1..Len(combined.rows) : i < j =>
         LET a == combined.rows[i]
             b == combined.rows[j]
         IN  /\ TeamPos(a) <= TeamPos(b)
             /\ TeamPos(a) = TeamPos(b) =>
                  \/ SeasonPos(a) < SeasonPos(b)
                  \/ SeasonPos(a) = SeasonPos(b) /\ TablePos(a) < TablePos(b)

\* the main script has merged two seasons of both teams: Bilbao's rows come
\* first, Qarabag's last
C18_Witness ==
  /\ run_pc = "merged" /\ script = "main"
  /\ Len(combined.rows) = 8
  /\ combined.rows[1]["Team"] = Str(AthleticClubBilbao)
  /\ combined.rows[4]["Season"] = Str(Season2425)
  /\ combined.rows[5]["Team"] = Str(QarabagFK)
  /\ combined.rows[5]["Season"] = Str(Season2324)

RowsTagged(rows) ==
  \A i \in 1..Len(rows) :
    /\ rows[i]["Date"].t = "date"
    /\ ~IsNull(rows[i]["Team"])
    /\ ~IsNull(rows[i]["Season"])
    /\ \E e \in extracted :
         rows[i]["Team"] = Str(e[1]) /\ rows[i]["Season"] = Str(e[2])

\* C19: in the runs, which start without cache files, every row of the
\* combined dataset and of the two combined files has a date, a team and a
\* season, and its team and season are the team_name and the season of a
\* call that tagged a table with them.
C19_CombinedRowsTagged ==
  /\ RowsTagged(combined.rows)
  /\ RowsTagged(allFile.rows)
  /\ RowsTagged(updFile.rows)

\* the update script, run after the main script, has merged rows read from
\* the cache files of the first run, one of which holds a row whose date
\* does not parse
C19_Witness ==
  /\ run_pc = "merged" /\ script = "update" /\ runs = 2
  /\ cache_hit
  /\ \E i \in 1..Len(combined.rows) : combined.rows[i]["Season"] = Str(Season2324)
  /\ \E p \in Paths : \E k \in 1..Len(cache[p].rows) : cache[p].rows[k]["Date"] = BadDay.s
  /\ updFile = combined
====
